---- MODULE Spec2Model ----
(***************************************************************************)
(* A model of the two estimators of the fractal-dimension repository:      *)
(*   box_count_dimension(signal)      (src/boxcount.py)                     *)
(*   hurst_rs(signal, min_chunk = 8)  (src/rs.py)                           *)
(*                                                                         *)
(* One behaviour is one caller that holds a signal and calls one of the    *)
(* two functions twice on it.  Every loop iteration of the function is a   *)
(* step.  Signals are integer valued, so every real number the code        *)
(* computes from them is a rational or a square root of a rational and is  *)
(* kept exactly:                                                           *)
(*   - a normalized sample (x - min) / (max - min) is the pair             *)
(*     <<x - min, max - min>>; the pair <<0, 0>> is the NaN that numpy's   *)
(*     0.0 / 0.0 produces (numpy warns, it does not raise);                *)
(*   - the R/S value of a chunk of size k is the pair <<R, S2>> of         *)
(*     integers standing for R * sqrt(k - 1) / sqrt(S2), see RsValues;     *)
(*   - a slope is the least-squares slope over the logarithms of its       *)
(*     points; the points are kept, the logarithm and the fit are not      *)
(*     evaluated.                                                          *)
(***************************************************************************)
EXTENDS Integers, Sequences, FiniteSets, TLC

VARIABLES
    fn,           \* the function the caller calls: "box" or "rs"
    signal,       \* the caller's array
    min_chunk,    \* hurst_rs's second argument (0 when fn = "box")
    call,         \* 1 during the first call, 2 during the second
    first,        \* the outcome of the first call
    pc,           \* position in the function body
    n,            \* the local n
    arr,          \* hurst_rs: the local array np.array(signal)
    signal_norm,  \* box_count_dimension: the normalized copy
    epsilons,     \* box_count_dimension: the exponents j of eps = 1 / 2^j
    counts,       \* box_count_dimension: the list counts
    segments,     \* the index ranges <<start_idx, end_idx>> of the last eps
    k_values,     \* hurst_rs: the chunk sizes
    valid_k,      \* hurst_rs: the list valid_k
    rs_averages,  \* hurst_rs: the list rs_averages
    num_chunks,   \* hurst_rs: n // k of the last chunk size
    idx,          \* 1-based position of the for loop in epsilons / k_values
    outcome       \* how the current call ended

vars == <<fn, signal, min_chunk, call, first, pc, n, arr, signal_norm, epsilons,
          counts, segments, k_values, valid_k, rs_averages, num_chunks, idx,
          outcome>>

----------------------------------------------------------------------------
(* Bounds of the inputs. *)

MaxLen == 41         \* box_count_dimension: signal lengths 0 .. MaxLen
MaxLenRs == 24       \* hurst_rs: signal lengths 0 .. MaxLenRs
MaxVal == 1          \* samples are integers 0 .. MaxVal
MaxPeriod == 3       \* signals repeat a pattern of 1 .. MaxPeriod samples
MaxMinChunk == 2     \* min_chunk is 1 .. MaxMinChunk or the default

(* Program constants. *)

DefaultMinChunk == 8 \* def hurst_rs(signal, min_chunk=8)
NumPoints == 20      \* np.logspace(..., num=20, ...)
PointsPerBox == 10   \* np.log2(n/10)

----------------------------------------------------------------------------
(* Integer helpers. *)

RECURSIVE Pow2(_)
Pow2(j) == IF j <= 0 THEN 1 ELSE 2 * Pow2(j - 1)

\* the minimum and the maximum of a non-empty sequence
RECURSIVE MinTo(_, _)
MinTo(s, i) ==
    IF i = 1 THEN s[1]
    ELSE LET m == MinTo(s, i - 1) IN IF s[i] < m THEN s[i] ELSE m

RECURSIVE MaxTo(_, _)
MaxTo(s, i) ==
    IF i = 1 THEN s[1]
    ELSE LET m == MaxTo(s, i - 1) IN IF s[i] > m THEN s[i] ELSE m

SeqMin(s) == MinTo(s, Len(s))

SeqMax(s) == MaxTo(s, Len(s))

RECURSIVE SumTo(_, _)
SumTo(s, i) == IF i = 0 THEN 0 ELSE s[i] + SumTo(s, i - 1)

SeqSum(s) == SumTo(s, Len(s))

\* s[a:b] of Python, 0-based and half open, for 0 <= a and b <= len(s)
Slice(s, a, b) == IF b <= a THEN <<>> ELSE SubSeq(s, a + 1, b)

\* math.ceil(p / q) for p >= 0, q > 0
CeilDiv(p, q) == (p + q - 1) \div q

----------------------------------------------------------------------------
(* The inputs: integer signals that repeat a short pattern, of every length  *)
(* up to a bound, and the min_chunk values 1 .. MaxMinChunk and the default. *)

Patterns == UNION {[1..q -> 0..MaxVal] : q \in 1..MaxPeriod}

Signals(maxlen) == {[i \in 1..len |-> p[((i - 1) % Len(p)) + 1]] :
                       len \in 0..maxlen, p \in Patterns}

MinChunks == (1..MaxMinChunk) \cup {DefaultMinChunk}

----------------------------------------------------------------------------
(* Outcomes of a call. *)

\* the slope linregress fits to the points (log xs[i], log ys[i]); nan is the
\* slope 0.0 / 0.0 it computes from a single point
NoSlope == [nan |-> FALSE, xs |-> <<>>, ys |-> <<>>]

\* kind is "none" while the call runs, then "return" or "raise"; at is the
\* function the call ended in
NoOutcome == [kind |-> "none", at |-> "", err |-> "", slope |-> NoSlope,
              log_eps_inv |-> <<>>, log_counts |-> <<>>]

Raise(where, e) == [NoOutcome EXCEPT !.kind = "raise", !.at = where, !.err = e]

\* scipy.stats.linregress(x, y) on the logarithms of xs and ys: it raises
\* ValueError on empty inputs, and on one point it divides 0.0 by 0.0 and
\* returns a NaN slope; the x values of both callers are pairwise different
Linregress(xs, ys) ==
    IF Len(xs) = 0
    THEN Raise("linregress", "ValueError: Inputs must not be empty.")
    ELSE [NoOutcome EXCEPT !.kind = "return",
                           !.slope = [nan |-> (Len(xs) = 1), xs |-> xs, ys |-> ys]]

----------------------------------------------------------------------------
(* box_count_dimension *)

\* line 24: (signal - min) / (max - min) elementwise; with max = min every
\* element is 0.0 / 0.0 = NaN, the pair <<0, 0>>
Normalize(sig) ==
    LET lo == SeqMin(sig)
        hi == SeqMax(sig)
    IN  [i \in 1..Len(sig) |-> <<sig[i] - lo, hi - lo>>]

IsNaN(y) == y[2] = 0

\* line 28: int(np.floor(np.log2(n / 10))) for n >= 1: the largest j, negative
\* for n < 10, with 10 * 2^j <= n
RECURSIVE FloorLog2Ratio(_, _)
FloorLog2Ratio(m, d) ==
    IF m >= 2 * d THEN 1 + FloorLog2Ratio(m, 2 * d)
    ELSE IF m < d THEN FloorLog2Ratio(2 * m, d) - 1
    ELSE 0

MaxK(len) == FloorLog2Ratio(len, PointsPerBox)

\* line 29: 1.0 / (2 ** np.arange(1, max_k + 1)), kept as the exponents j
\* a variant that stops one exponent early
EpsilonsOneShort(max_k) == [j \in 1..(max_k - 1) |-> j]

Epsilons(max_k) == [j \in 1..max_k |-> j]

\* line 36: int(1 / eps) for eps = 1 / 2^j
NumIntervals(j) == Pow2(j)

\* lines 37-42: the index range [start_idx, end_idx) of interval i
StartIdx(len, num_intervals, i) == i * (len \div num_intervals)

\* a variant without the special case of the last interval
EndIdxNoRemainder(len, num_intervals, i) == (i + 1) * (len \div num_intervals)

EndIdx(len, num_intervals, i) ==
    IF i < num_intervals - 1 THEN (i + 1) * (len \div num_intervals) ELSE len

Segments(len, num_intervals) ==
    [i1 \in 1..num_intervals |->
        <<StartIdx(len, num_intervals, i1 - 1), EndIdx(len, num_intervals, i1 - 1)>>]

\* lines 47-50: np.ceil((y_max - y_min) / eps) of a non-empty segment whose
\* samples share the divisor max - min; NaN when the samples are NaN
VerticalBoxes(segment, j) ==
    IF IsNaN(segment[1])
    THEN [nan |-> TRUE, v |-> 0]
    ELSE LET nums == [i \in 1..Len(segment) |-> segment[i][1]]
         IN  [nan |-> FALSE,
              v |-> CeilDiv((SeqMax(nums) - SeqMin(nums)) * Pow2(j), segment[1][2])]

\* line 52: Python's max(1, vertical_boxes); nan > 1 is False, so max(1, nan) is 1
\* a variant without the floor of one box
Max1NoFloor(vb) == vb.v

Max1(vb) == IF ~vb.nan /\ vb.v > 1 THEN vb.v ELSE 1

\* lines 44-52: what one interval adds to num_boxes
BoxesOfInterval(norm, range, j) ==
    LET segment == Slice(norm, range[1], range[2])
    IN  IF Len(segment) > 0 THEN Max1(VerticalBoxes(segment, j)) ELSE 0

\* lines 35-54: num_boxes of one eps
NumBoxes(norm, j) ==
    LET segs == Segments(Len(norm), NumIntervals(j))
    IN  SeqSum([i \in 1..Len(segs) |-> BoxesOfInterval(norm, segs[i], j)])

----------------------------------------------------------------------------
(* hurst_rs: the chunk sizes.                                                *)
(* np.logspace(log10(a), log10(b), num=20, dtype=int) is, for point          *)
(* i = 0 .. 19, the float 10.0 ** (log10(a) + i * (log10(b) - log10(a)) / 19)*)
(* truncated to an integer.  The real number it approximates is the 19th     *)
(* root of a^(19-i) * b^i, an integer only at i = 0 (a), at i = 19 (b) and   *)
(* when a = b.  Away from these points the float lies on the same side of    *)
(* every integer as the real number, so the truncation is the floor of the   *)
(* root, found here with exact products.  At these points the float          *)
(* 10.0 ** log10(m) of IEEE double arithmetic is m or the double just below  *)
(* m, and TruncBelow lists the m <= 41 of the second kind: there the         *)
(* truncation is m - 1.                                                      *)

TruncBelow == {8, 11, 13, 14, 18, 19, 22, 23, 24, 30, 31, 38, 39, 41}

\* int(10.0 ** np.log10(m))
TruncPow10Log10(m) == IF m \in TruncBelow THEN m - 1 ELSE m

\* Natural numbers beyond 32 bits: little-endian sequences of digits in
\* base 10000 without leading zeros.  BigMul(x, m, c) is x * m + c.
RECURSIVE BigMul(_, _, _)
BigMul(x, m, c) ==
    IF x = <<>>
    THEN IF c = 0 THEN <<>> ELSE <<c % 10000>> \o BigMul(<<>>, m, c \div 10000)
    ELSE <<(x[1] * m + c) % 10000>> \o BigMul(Tail(x), m, (x[1] * m + c) \div 10000)

\* a^p * b^q
RECURSIVE BigPowProd(_, _, _, _)
BigPowProd(a, p, b, q) ==
    IF p > 0 THEN BigMul(BigPowProd(a, p - 1, b, q), a, 0)
    ELSE IF q > 0 THEN BigMul(BigPowProd(a, 0, b, q - 1), b, 0)
    ELSE <<1>>

RECURSIVE BigLeqFrom(_, _, _)
BigLeqFrom(x, y, i) ==
    IF i = 0 THEN TRUE
    ELSE IF x[i] # y[i] THEN x[i] < y[i]
    ELSE BigLeqFrom(x, y, i - 1)

BigLeq(x, y) ==
    \/ Len(x) < Len(y)
    \/ Len(x) = Len(y) /\ BigLeqFrom(x, y, Len(x))

\* the largest k >= k0 with k^19 <= P, given k0^19 <= P
RECURSIVE FloorRootFrom(_, _)
FloorRootFrom(k0, P) ==
    IF BigLeq(BigPowProd(k0 + 1, NumPoints - 1, 1, 0), P)
    THEN FloorRootFrom(k0 + 1, P)
    ELSE k0

\* points i .. 19 of the truncated logspace, the point before i being kprev
RECURSIVE LogspaceFrom(_, _, _, _)
LogspaceFrom(a, b, i, kprev) ==
    IF i = NumPoints - 1 THEN <<TruncPow10Log10(b)>>
    ELSE LET k == FloorRootFrom(kprev, BigPowProd(a, NumPoints - 1 - i, b, i))
         IN  <<k>> \o LogspaceFrom(a, b, i + 1, k)

\* line 21, for 1 <= a <= b
LogspaceInt(a, b) ==
    IF a = b
    THEN [i \in 1..NumPoints |-> TruncPow10Log10(a)]
    ELSE <<TruncPow10Log10(a)>> \o LogspaceFrom(a, b, 1, a)

\* line 22: np.unique, the sorted distinct values
RECURSIVE SortedSeq(_)
SortedSeq(S) ==
    IF S = {} THEN <<>>
    ELSE LET m == CHOOSE x \in S : \A y \in S : x <= y
         IN  <<m>> \o SortedSeq(S \ {m})

Unique(s) == SortedSeq({s[i] : i \in 1..Len(s)})

\* lines 21-22 for every pair of arguments of the inputs, evaluated once
KTable ==
    [a \in MinChunks |->
        [b \in 1..(MaxLenRs \div 2) |->
            IF a <= b THEN Unique(LogspaceInt(a, b)) ELSE <<>>]]

KValues(a, b) == KTable[a][b]

----------------------------------------------------------------------------
(* hurst_rs: the statistic of one chunk size.                                *)
(* For a chunk x of k integers with sum s the deviations x[i] - mean are     *)
(* d[i] / k with d[i] = k * x[i] - s.  So the range of the cumulative sum is *)
(* R / k, where R is the range of the cumulative sum of d, the standard      *)
(* deviation with ddof = 1 is sqrt(S2 / (k - 1)) / k, where S2 is the sum of *)
(* the d[i]^2, and the chunk's R/S is R * sqrt(k - 1) / sqrt(S2).            *)

\* line 38: the rows of truncated_signal.reshape(num_chunks, k)
Chunks(a, num, k) == [c \in 1..num |-> SubSeq(a, (c - 1) * k + 1, c * k)]

\* line 45: chunks - means, times k
Devs(x) == LET s == SeqSum(x) IN [i \in 1..Len(x) |-> Len(x) * x[i] - s]

\* line 45: np.cumsum of the deviations d, from position i on, the sum
\* before i being acc
RECURSIVE CumSumFrom(_, _, _)
CumSumFrom(d, i, acc) ==
    IF i > Len(d) THEN <<>>
    ELSE <<acc + d[i]>> \o CumSumFrom(d, i + 1, acc + d[i])

CumSum(d) == CumSumFrom(d, 1, 0)

\* line 48, from the deviations d of a chunk
RangeOf(d) == LET Y == CumSum(d) IN SeqMax(Y) - SeqMin(Y)

\* line 42, from the deviations d of a chunk: k * k * (k - 1) times the
\* variance
SumSq(d) == SeqSum([i \in 1..Len(d) |-> d[i] * d[i]])

\* a variant that keeps the chunks of standard deviation 0
ValidChunkNoStdTest(d) == Len(d) > 1

\* line 51: stds > 0, from the deviations d of a chunk; the standard
\* deviation of a single sample is 0.0 / 0 = NaN, and NaN > 0 is False
ValidChunk(d) == Len(d) > 1 /\ SumSq(d) > 0

\* line 55: R[valid_chunks] / stds[valid_chunks], in the order of the chunks,
\* from chunk c on
RECURSIVE RsValuesFrom(_, _)
RsValuesFrom(chunks, c) ==
    IF c > Len(chunks) THEN <<>>
    ELSE LET d == Devs(chunks[c])
         IN  (IF ValidChunk(d) THEN <<<<RangeOf(d), SumSq(d)>>>> ELSE <<>>)
                 \o RsValuesFrom(chunks, c + 1)

RsValues(chunks) == RsValuesFrom(chunks, 1)

\* line 58: np.mean(rs_values), the sum of the terms over their number
MeanOf(rs_values) == [count |-> Len(rs_values), terms |-> rs_values]

----------------------------------------------------------------------------
(* The caller and the two function bodies. *)

Locals0 ==
    /\ n = 0
    /\ arr = <<>>
    /\ signal_norm = <<>>
    /\ epsilons = <<>>
    /\ counts = <<>>
    /\ segments = <<>>
    /\ k_values = <<>>
    /\ valid_k = <<>>
    /\ rs_averages = <<>>
    /\ num_chunks = 0
    /\ idx = 1
    /\ outcome = NoOutcome

Init ==
    /\ fn \in {"box", "rs"}
    /\ signal \in (IF fn = "rs" THEN Signals(MaxLenRs) ELSE Signals(MaxLen))
    /\ min_chunk \in (IF fn = "rs" THEN MinChunks ELSE {0})
    /\ call = 1
    /\ first = NoOutcome
    /\ pc = "start"
    /\ Locals0

\* a variant that normalizes the caller's array in place
BoxNormalizeInPlace ==
    /\ fn = "box" /\ pc = "start"
    /\ n' = Len(signal)
    /\ IF Len(signal) = 0
       THEN /\ outcome' = Raise("np.min",
                "ValueError: zero-size array to reduction operation minimum")
            /\ pc' = "done"
            /\ UNCHANGED <<signal, signal_norm>>
       ELSE /\ signal_norm' = Normalize(signal)
            /\ signal' = [i \in 1..Len(signal) |-> signal[i] - SeqMin(signal)]
            /\ pc' = "scales"
            /\ UNCHANGED outcome
    /\ UNCHANGED <<fn, min_chunk, call, first, arr, epsilons, counts,
                   segments, k_values, valid_k, rs_averages, num_chunks, idx>>

\* boxcount.py lines 21-24.  np.min of an empty array raises ValueError; the
\* arithmetic builds a new array and leaves the caller's alone.
BoxNormalize ==
    /\ fn = "box" /\ pc = "start"
    /\ n' = Len(signal)
    /\ IF Len(signal) = 0
       THEN /\ outcome' = Raise("np.min",
                "ValueError: zero-size array to reduction operation minimum")
            /\ pc' = "done"
            /\ UNCHANGED signal_norm
       ELSE /\ signal_norm' = Normalize(signal)
            /\ pc' = "scales"
            /\ UNCHANGED outcome
    /\ UNCHANGED <<fn, signal, min_chunk, call, first, arr, epsilons, counts,
                   segments, k_values, valid_k, rs_averages, num_chunks, idx>>

\* boxcount.py lines 28-31
BoxScales ==
    /\ fn = "box" /\ pc = "scales"
    /\ epsilons' = Epsilons(MaxK(n))
    /\ counts' = <<>>
    /\ idx' = 1
    /\ pc' = "loop"
    /\ UNCHANGED <<fn, signal, min_chunk, call, first, n, arr, signal_norm,
                   segments, k_values, valid_k, rs_averages, num_chunks, outcome>>

\* boxcount.py lines 34-54: one iteration of the loop over epsilons
BoxCount ==
    /\ fn = "box" /\ pc = "loop" /\ idx <= Len(epsilons)
    /\ segments' = Segments(n, NumIntervals(epsilons[idx]))
    /\ counts' = Append(counts, NumBoxes(signal_norm, epsilons[idx]))
    /\ idx' = idx + 1
    /\ UNCHANGED <<fn, signal, min_chunk, call, first, pc, n, arr, signal_norm,
                   epsilons, k_values, valid_k, rs_averages, num_chunks, outcome>>

\* boxcount.py lines 57-62: log_eps_inv holds log(1 / eps) = log(2^j)
BoxRegress ==
    /\ fn = "box" /\ pc = "loop" /\ idx > Len(epsilons)
    /\ LET xs == [i \in 1..Len(epsilons) |-> Pow2(epsilons[i])]
           r == Linregress(xs, counts)
       IN  outcome' = IF r.kind = "return"
                      THEN [r EXCEPT !.at = "box_count_dimension",
                                     !.log_eps_inv = xs, !.log_counts = counts]
                      ELSE r
    /\ pc' = "done"
    /\ UNCHANGED <<fn, signal, min_chunk, call, first, n, arr, signal_norm,
                   epsilons, counts, segments, k_values, valid_k, rs_averages,
                   num_chunks, idx>>

\* a variant that also refuses max_chunk = min_chunk
TooShortOrEqual(len, mc) == len \div 2 <= mc

\* rs.py lines 16-17
TooShort(len, mc) == len \div 2 < mc

\* rs.py lines 12-18: np.array(signal) is a copy
RsCheck ==
    /\ fn = "rs" /\ pc = "start"
    /\ arr' = signal
    /\ n' = Len(signal)
    /\ IF TooShort(Len(signal), min_chunk)
       THEN /\ outcome' = Raise("hurst_rs",
                "ValueError: Signal is too short for the specified minimum chunk size.")
            /\ pc' = "done"
       ELSE /\ pc' = "scales"
            /\ UNCHANGED outcome
    /\ UNCHANGED <<fn, signal, min_chunk, call, first, signal_norm, epsilons,
                   counts, segments, k_values, valid_k, rs_averages, num_chunks, idx>>

\* rs.py lines 21-25
RsScales ==
    /\ fn = "rs" /\ pc = "scales"
    /\ k_values' = KValues(min_chunk, n \div 2)
    /\ rs_averages' = <<>>
    /\ valid_k' = <<>>
    /\ idx' = 1
    /\ pc' = "loop"
    /\ UNCHANGED <<fn, signal, min_chunk, call, first, n, arr, signal_norm,
                   epsilons, counts, segments, num_chunks, outcome>>

\* rs.py line 29: n // k; numpy's integer division by zero gives 0
NumChunks(len, k) == IF k = 0 THEN 0 ELSE len \div k

\* rs.py lines 27-59: one iteration of the loop over k_values
RsScale ==
    /\ fn = "rs" /\ pc = "loop" /\ idx <= Len(k_values)
    /\ LET k == k_values[idx]
           nc == NumChunks(n, k)
           rs_values == RsValues(Chunks(SubSeq(arr, 1, nc * k), nc, k))
       IN  /\ num_chunks' = nc
           /\ IF nc = 0 \/ rs_values = <<>>
              THEN UNCHANGED <<rs_averages, valid_k>>
              ELSE /\ rs_averages' = Append(rs_averages, MeanOf(rs_values))
                   /\ valid_k' = Append(valid_k, k)
    /\ idx' = idx + 1
    /\ UNCHANGED <<fn, signal, min_chunk, call, first, pc, n, arr, signal_norm,
                   epsilons, counts, segments, k_values, outcome>>

\* rs.py lines 64-69
RsRegress ==
    /\ fn = "rs" /\ pc = "loop" /\ idx > Len(k_values)
    /\ LET r == Linregress(valid_k, rs_averages)
       IN  outcome' = IF r.kind = "return" THEN [r EXCEPT !.at = "hurst_rs"] ELSE r
    /\ pc' = "done"
    /\ UNCHANGED <<fn, signal, min_chunk, call, first, n, arr, signal_norm,
                   epsilons, counts, segments, k_values, valid_k, rs_averages,
                   num_chunks, idx>>

\* the caller calls the same function again on the same array: the locals of
\* the first call are gone
CallAgain ==
    /\ pc = "done" /\ call = 1
    /\ call' = 2
    /\ first' = outcome
    /\ pc' = "start"
    /\ n' = 0
    /\ arr' = <<>>
    /\ signal_norm' = <<>>
    /\ epsilons' = <<>>
    /\ counts' = <<>>
    /\ segments' = <<>>
    /\ k_values' = <<>>
    /\ valid_k' = <<>>
    /\ rs_averages' = <<>>
    /\ num_chunks' = 0
    /\ idx' = 1
    /\ outcome' = NoOutcome
    /\ UNCHANGED <<fn, signal, min_chunk>>

Next ==
    \/ BoxNormalize
    \/ BoxScales
    \/ BoxCount
    \/ BoxRegress
    \/ RsCheck
    \/ RsScales
    \/ RsScale
    \/ RsRegress
    \/ CallAgain

Spec == Init /\ [][Next]_vars

----------------------------------------------------------------------------
(* Properties. *)

ZeroRange(sig) == Len(sig) > 0 /\ \A i, j \in 1..Len(sig) : sig[i] = sig[j]

TooShortMessage ==
    "ValueError: Signal is too short for the specified minimum chunk size."

\* C1: for a signal whose maximum equals its minimum, box_count_dimension
\* ends in an error it raises itself at the normalization step: no sample is
\* divided by a zero range, no box count is computed, nothing is returned.
C1_ZeroRangeRaisesAtNormalization ==
    (fn = "box" /\ ZeroRange(signal) /\ pc # "start") =>
        /\ pc = "done"
        /\ outcome.kind = "raise"
        /\ outcome.at = "box_count_dimension"
        /\ \A i \in 1..Len(signal_norm) : ~IsNaN(signal_norm[i])
        /\ counts = <<>>

\* C2: when fewer than 2 (chunk size, R/S average) pairs survive the loop,
\* hurst_rs ends in an error it raises itself; the regressor is not invoked
\* and no slope is returned.
C2_FewScalesRaisedByHurst ==
    (fn = "rs" /\ pc = "done" /\ Len(valid_k) < 2) =>
        /\ outcome.kind = "raise"
        /\ outcome.at = "hurst_rs"

\* C3: for a signal of length n < 20 (no exponent j >= 1 with 10 * 2^j <= n),
\* box_count_dimension fails at scale generation with an error of its own and
\* reaches neither the counting loop nor the regression.  Stated for the
\* signals of positive range, which are the ones normalization lets through.
C3_ShortSignalRaisesAtScales ==
    (fn = "box" /\ ~ZeroRange(signal)
        /\ Len(signal) >= 1 /\ Len(signal) < 2 * PointsPerBox
        /\ pc \in {"loop", "done"}) =>
        /\ pc = "done"
        /\ outcome.kind = "raise"
        /\ outcome.at = "box_count_dimension"

\* C4: when n // 2 < min_chunk, hurst_rs raises its too-short error before a
\* chunk size is generated and before a statistic is computed; when
\* n // 2 >= min_chunk that error is never raised.
C4_TooShortRaisedFirst ==
    fn = "rs" =>
        /\ (Len(signal) \div 2 < min_chunk /\ pc # "start") =>
              /\ pc = "done"
              /\ outcome = Raise("hurst_rs", TooShortMessage)
              /\ k_values = <<>> /\ valid_k = <<>> /\ rs_averages = <<>>
              /\ num_chunks = 0
        /\ (Len(signal) \div 2 >= min_chunk) =>
              /\ outcome.err # TooShortMessage
              /\ first.err # TooShortMessage

C4_Witness ==
    /\ fn = "rs" /\ pc = "done"
    /\ Len(signal) \div 2 < min_chunk
    /\ outcome.kind = "raise" /\ outcome.err = TooShortMessage

\* C5: a call of box_count_dimension that returns has generated exactly
\* floor(log2(n / 10)) box widths eps = 1 / 2^j, j = 1, 2, ... in this order;
\* both returned arrays have that many elements and entry i of each belongs
\* to eps = 1 / 2^i; for n = 1000 there are 6.
C5_ScalesAndArrays ==
    /\ MaxK(1000) = 6
    /\ (fn = "box" /\ pc = "done" /\ outcome.kind = "return") =>
          LET m == Len(outcome.log_eps_inv)
          IN  /\ PointsPerBox * Pow2(m) <= Len(signal)
              /\ Len(signal) < PointsPerBox * Pow2(m + 1)
              /\ Len(outcome.log_counts) = m
              /\ Len(epsilons) = m
              /\ \A i \in 1..m :
                    /\ epsilons[i] = i
                    /\ outcome.log_eps_inv[i] = Pow2(i)
                    /\ outcome.log_counts[i] = NumBoxes(Normalize(signal), i)

C5_Witness ==
    /\ fn = "box" /\ pc = "done" /\ outcome.kind = "return"
    /\ Len(outcome.log_eps_inv) = 2
    /\ Len(outcome.log_counts) = 2

C7_InputUnchangedAndRepeatable ==
    /\ [][signal' = signal]_vars
    /\ []((call = 2 /\ pc = "done") => outcome = first)

C7_Witness ==
    /\ call = 2 /\ pc = "done"
    /\ outcome.kind = "return" /\ ~outcome.slope.nan

\* C8: the index ranges [start_idx, end_idx) of one box width partition
\* 0 .. n-1: the first starts at 0, each starts where the one before ends, the
\* last ends at n, none is empty, and all but the last have n // num_intervals
\* samples.
C8_SegmentsPartition ==
    (fn = "box" /\ segments # <<>>) =>
        LET m == Len(segments)
        IN  /\ segments[1][1] = 0
            /\ segments[m][2] = n
            /\ \A i \in 1..m : segments[i][1] < segments[i][2]
            /\ \A i \in 1..(m - 1) :
                  /\ segments[i][2] = segments[i + 1][1]
                  /\ segments[i][2] - segments[i][1] = n \div m
            /\ \A x \in 0..(n - 1) :
                  Cardinality({i \in 1..m :
                      segments[i][1] <= x /\ x < segments[i][2]}) = 1

\* four intervals, the last one longer than the others
C8_Witness ==
    /\ fn = "box" /\ Len(segments) = 4
    /\ n % 4 # 0

\* C9: in one iteration of hurst_rs's loop, for chunk size k: the chunks of
\* standard deviation 0 (all samples equal) contribute nothing; if all chunks
\* are such, neither list grows; otherwise k is appended to valid_k and one
\* statistic to rs_averages, the mean over exactly the other chunks, in
\* order, none divided by a zero deviation; the two lists stay equally long.
C9_ScaleStep ==
    [][(fn = "rs" /\ pc = "loop" /\ pc' = "loop" /\ idx' = idx + 1) =>
        LET k == k_values[idx]
            nc == Len(signal) \div k
            chunk(c) == SubSeq(signal, (c - 1) * k + 1, c * k)
            good == {c \in 1..nc : \E i \in 2..k :
                        signal[(c - 1) * k + i] # signal[(c - 1) * k + 1]}
            nth(t) == CHOOSE c \in good : Cardinality({d \in good : d <= c}) = t
        IN  /\ Len(valid_k') = Len(rs_averages')
            /\ IF good = {}
               THEN valid_k' = valid_k /\ rs_averages' = rs_averages
               ELSE /\ valid_k' = Append(valid_k, k)
                    /\ Len(rs_averages') = Len(rs_averages) + 1
                    /\ SubSeq(rs_averages', 1, Len(rs_averages)) = rs_averages
                    /\ LET mean == rs_averages'[Len(rs_averages')]
                       IN  /\ mean.count = Cardinality(good)
                           /\ Len(mean.terms) = Cardinality(good)
                           /\ \A t \in 1..Cardinality(good) :
                                 /\ mean.terms[t] = <<RangeOf(Devs(chunk(nth(t)))),
                                                      SumSq(Devs(chunk(nth(t))))>>
                                 /\ mean.terms[t][2] > 0
      ]_vars

\* a chunk size that is kept although some of its chunks are excluded
C9_Witness ==
    /\ fn = "rs" /\ pc = "loop" /\ idx > 1
    /\ valid_k # <<>>
    /\ valid_k[Len(valid_k)] = k_values[idx - 1]
    /\ rs_averages[Len(rs_averages)].count < num_chunks

\* C10: the chunk sizes hurst_rs iterates over are integers k with
\* min_chunk <= k <= n // 2, strictly ascending, so n // k >= 2 at every one
\* of them and the branch for num_chunks = 0 is not taken.
C10_ChunkSizesInRange ==
    (fn = "rs" /\ pc = "loop") =>
        /\ \A i \in 1..Len(k_values) :
              /\ min_chunk <= k_values[i]
              /\ k_values[i] <= n \div 2
        /\ \A i \in 1..(Len(k_values) - 1) : k_values[i] < k_values[i + 1]
        /\ idx > 1 => num_chunks >= 2

====
